---- MODULE Spec2Model ----
(***************************************************************************)
(* A model of kiyo's Vulkan glue: the life cycle of a Swapchain            *)
(* (akai/src/vulkan/swapchain.rs) seen through the calls it makes into the *)
(* driver, and load_shader_code (src/vulkan/pipeline.rs).                  *)
(*                                                                         *)
(* The driver is the environment: it hands out handles, may fail any       *)
(* fallible call, and records every create_* / destroy_* call in `calls`.  *)
(***************************************************************************)
EXTENDS Integers, Sequences, FiniteSets

VARIABLES
    overflow_checks,  \* build profile: does u32 `+` panic on overflow (debug) or wrap (release)
    phase,            \* "none" | "live" | "dropped" | "panicked": where the Swapchain value is
    caps,             \* vk::SurfaceCapabilitiesKHR returned by surface.get_surface_capabilities
    create_info,      \* vk::SwapchainCreateInfoKHR handed to create_swapchain
    swapchain,        \* Swapchain.swapchain (0: VK_NULL_HANDLE)
    images,           \* Swapchain.images
    image_views,      \* Swapchain.image_views
    extent,           \* Swapchain.extent
    calls,            \* the driver's log of create_* / destroy_* calls, in order
    ret,              \* the value the last getter returned
    shader            \* the last load_shader_code call and what was displayed of its error

vars == <<overflow_checks, phase, caps, create_info, swapchain, images, image_views,
          extent, calls, ret, shader>>

swapchainVars == <<overflow_checks, phase, caps, create_info, swapchain, images,
                   image_views, extent, calls, ret>>

(***************************************************************************)
(* Bounds.                                                                 *)
(***************************************************************************)
\* u32::MAX, scaled down: u32 values are 0..U32_MAX and `+` wraps modulo U32_MAX + 1.
U32_MAX == 5

\* The most images the driver gives a swapchain.
MaxImages == 3

U32 == 0..U32_MAX

(***************************************************************************)
(* Values.                                                                 *)
(***************************************************************************)
Extent2D(w, h) == [width |-> w, height |-> h]

\* vk::SurfaceFormatKHR values a surface may offer; the first is the one new looks for.
R8G8B8A8_UNORM_SRGB_NONLINEAR == [format |-> "R8G8B8A8_UNORM", color_space |-> "SRGB_NONLINEAR"]

SurfaceFormats ==
    { R8G8B8A8_UNORM_SRGB_NONLINEAR,
      [format |-> "B8G8R8A8_SRGB", color_space |-> "SRGB_NONLINEAR"] }

PresentModes == {"FIFO", "MAILBOX"}

\* Every SurfaceCapabilitiesKHR the type admits (the counts are plain u32 fields).
SurfaceCapabilities ==
    [ min_image_count      : U32,
      max_image_count      : U32,
      supported_transforms : {{"IDENTITY", "ROTATE_90"}, {"ROTATE_90"}},
      current_transform    : {"ROTATE_90"},
      current_extent       : {Extent2D(U32_MAX, U32_MAX), Extent2D(2, 1)} ]

WindowExtents == {Extent2D(1, 1), Extent2D(3, 2)}

\* vk::SwapchainCreateInfoKHR::default() / vk::SurfaceCapabilitiesKHR::default()
DefaultCreateInfo ==
    [ min_image_count |-> 0, image_extent |-> Extent2D(0, 0), image_format |-> "UNDEFINED",
      image_color_space |-> "SRGB_NONLINEAR", pre_transform |-> "NONE",
      present_mode |-> "IMMEDIATE" ]

DefaultCaps ==
    [ min_image_count |-> 0, max_image_count |-> 0, supported_transforms |-> {},
      current_transform |-> "NONE", current_extent |-> Extent2D(0, 0) ]

NoRet == [fn |-> "none", val |-> <<>>]

(***************************************************************************)
(* Swapchain::new, the pure parts.                                         *)
(***************************************************************************)
\* u32 `+ 1`: the wrapped sum, and whether it overflowed.
AddOne(x) == (x + 1) % (U32_MAX + 1)

AddOneOverflows(x) == x + 1 > U32_MAX

DesiredImageCountNoClamp(c) == AddOne(c.min_image_count)

\* let mut desired_image_count = min_image_count + 1; clamped when max_image_count > 0
DesiredImageCount(c) ==
    LET desired_image_count == AddOne(c.min_image_count)
    IN  IF c.max_image_count > 0 /\ desired_image_count > c.max_image_count
        THEN c.max_image_count
        ELSE desired_image_count

PreTransform(c) ==
    IF "IDENTITY" \in c.supported_transforms THEN "IDENTITY" ELSE c.current_transform

PresentMode(present_modes) ==
    IF "MAILBOX" \in present_modes THEN "MAILBOX" ELSE "FIFO"

ChooseExtent(c, window_extent) ==
    IF c.current_extent.width = U32_MAX THEN window_extent ELSE c.current_extent

CreateInfo(surface_format, c, present_modes, window_extent) ==
    [ min_image_count   |-> DesiredImageCount(c),
      image_extent      |-> ChooseExtent(c, window_extent),
      image_format      |-> surface_format.format,
      image_color_space |-> surface_format.color_space,
      pre_transform     |-> PreTransform(c),
      present_mode      |-> PresentMode(present_modes) ]

(***************************************************************************)
(* The driver.                                                             *)
(***************************************************************************)
Call(op, arg, h) == [op |-> op, arg |-> arg, h |-> h]

\* Handles are handed out in sequence: the swapchain, its images, then the views.
SwapchainHandle == 1

SwapchainImages(n) == [i \in 1..n |-> SwapchainHandle + i]

ViewHandle(n, i) == SwapchainHandle + n + i

\* for &image in images.iter() { ... create_image_view(image) ...; image_views.push(view) }
\* run for the first k images.
CreateImageViewsReversed(imgs, k) ==
    [i \in 1..k |-> Call("create_image_view", imgs[Len(imgs) + 1 - i], ViewHandle(Len(imgs), i))]

CreateImageViews(imgs, k) ==
    [i \in 1..k |-> Call("create_image_view", imgs[i], ViewHandle(Len(imgs), i))]

Handles(cs) == [i \in 1..Len(cs) |-> cs[i].h]

\* impl Drop: every image view in order, then the swapchain.
DropCallsSwapchainFirst(views, sc) ==
    <<Call("destroy_swapchain", 0, sc)>>
        \o [i \in 1..Len(views) |-> Call("destroy_image_view", 0, views[i])]

DropCalls(views, sc) ==
    [i \in 1..Len(views) |-> Call("destroy_image_view", 0, views[i])]
        \o <<Call("destroy_swapchain", 0, sc)>>

(***************************************************************************)
(* Swapchain::new.  The driver chooses how many images the swapchain has   *)
(* and which fallible call, if any, fails; every failure is an unwrap() or *)
(* expect() panic, which ends new without a Swapchain value.               *)
(***************************************************************************)
Panicked(c, ci, cs) ==
    /\ phase' = "panicked"
    /\ caps' = c
    /\ create_info' = ci
    /\ calls' = cs
    /\ UNCHANGED <<swapchain, images, image_views, extent>>

Failures == {"none", "create_swapchain", "get_swapchain_images", "create_image_view"}

New ==
    /\ phase = "none"
    /\ \E available_formats \in SUBSET SurfaceFormats, c \in SurfaceCapabilities,
          present_modes \in SUBSET PresentModes, window_extent \in WindowExtents,
          n \in 1..MaxImages, fail \in Failures, k \in 1..MaxImages :
        /\ k <= n
        /\ fail # "create_image_view" => k = n
        /\ IF R8G8B8A8_UNORM_SRGB_NONLINEAR \notin available_formats
           THEN \* .expect("No suitable surface format found.")
                Panicked(caps, create_info, calls)
           ELSE IF AddOneOverflows(c.min_image_count) /\ overflow_checks
           THEN \* attempt to add with overflow
                Panicked(c, create_info, calls)
           ELSE
             LET ci     == CreateInfo(R8G8B8A8_UNORM_SRGB_NONLINEAR, c, present_modes,
                                      window_extent)
                 create == <<Call("create_swapchain", 0, SwapchainHandle)>>
                 imgs   == SwapchainImages(n)
             IN  CASE fail = "create_swapchain" ->
                        Panicked(c, ci, calls)
                   [] fail = "get_swapchain_images" ->
                        Panicked(c, ci, calls \o create)
                   [] fail = "create_image_view" ->
                        \* the k-th create_image_view fails, after k - 1 succeeded
                        Panicked(c, ci, calls \o create \o CreateImageViews(imgs, k - 1))
                   [] OTHER ->
                        /\ phase' = "live"
                        /\ caps' = c
                        /\ create_info' = ci
                        /\ swapchain' = SwapchainHandle
                        /\ images' = imgs
                        /\ image_views' = Handles(CreateImageViews(imgs, n))
                        /\ extent' = ChooseExtent(c, window_extent)
                        /\ calls' = calls \o create \o CreateImageViews(imgs, n)
    /\ UNCHANGED <<overflow_checks, ret, shader>>

(***************************************************************************)
(* The getters (&self).                                                    *)
(***************************************************************************)
GetImages ==
    /\ phase = "live"
    /\ ret' = [fn |-> "get_images", val |-> images]
    /\ UNCHANGED <<overflow_checks, phase, caps, create_info, swapchain, images,
                   image_views, extent, calls, shader>>

GetImageViews ==
    /\ phase = "live"
    /\ ret' = [fn |-> "get_image_views", val |-> image_views]
    /\ UNCHANGED <<overflow_checks, phase, caps, create_info, swapchain, images,
                   image_views, extent, calls, shader>>

GetExtent ==
    /\ phase = "live"
    /\ ret' = [fn |-> "get_extent", val |-> extent]
    /\ UNCHANGED <<overflow_checks, phase, caps, create_info, swapchain, images,
                   image_views, extent, calls, shader>>

(***************************************************************************)
(* impl Drop for Swapchain.                                                *)
(***************************************************************************)
Drop ==
    /\ phase = "live"
    /\ phase' = "dropped"
    /\ calls' = calls \o DropCalls(image_views, swapchain)
    /\ UNCHANGED <<overflow_checks, caps, create_info, swapchain, images, image_views,
                   extent, ret, shader>>

(***************************************************************************)
(* load_shader_code and PipelineErr (src/vulkan/pipeline.rs).              *)
(*                                                                         *)
(* A file name is a sequence of tokens: "." is the dot, every other token  *)
(* a non-empty run of characters without a dot.  Texts are sequences of    *)
(* characters.                                                             *)
(***************************************************************************)
\* The longest file name, in tokens.
MaxNameLen == 3

NameTokens == {".", "s", "vert", "frag", "comp", "glsl"}

SeqsUpTo(S, n) == UNION {[1..m -> S] : m \in 0..n}

SourceFiles == SeqsUpTo(NameTokens, MaxNameLen)

\* What the compiler may answer: SPIR-V words, or an error with its text (to_string()).
Binaries == {<<7>>, <<7, 2, 3>>}

CompilerErrors ==
    { [kind |-> "CompilationError", text |-> <<"1", " ", "e", "r", "r">>],
      [kind |-> "CompilationError", text |-> <<"2", " ", "e", "r", "r">>],
      [kind |-> "InternalError",    text |-> <<>>] }

BinaryResults ==
    [tag : {"Ok"}, val : Binaries] \cup [tag : {"Err"}, val : CompilerErrors]

\* macros: &HashMap<&str, &dyn ToString>, as the definitions it adds in iteration order
Macros == {<<>>, <<[name |-> "N", value |-> <<"1">>]>>, <<[name |-> "EP", value |-> <<"f">>]>>}

Ok(v) == [tag |-> "Ok", val |-> v]

Err(e) == [tag |-> "Err", val |-> e]

ShaderCompilation(msg) == [variant |-> "ShaderCompilation", msg |-> msg]

\* source_file.split(".").last(): what follows the last dot (the whole name without one)
LastDot(name) ==
    LET dots == {i \in 1..Len(name) : name[i] = "."}
    IN  IF dots = {} THEN 0 ELSE CHOOSE i \in dots : \A j \in dots : j <= i

LastSegment(name) == SubSeq(name, LastDot(name) + 1, Len(name))

\* match source_file.split(".").last() { Some("vert") => .., _ => panic!(..) }
ShaderKind(name) ==
    LET last == LastSegment(name)
    IN  CASE last = <<"vert">> -> "Vertex"
          [] last = <<"frag">> -> "Fragment"
          [] last = <<"comp">> -> "Compute"
          [] OTHER             -> "panic"

\* options.add_macro_definition("EP", Some("main")); then one per macro
CompileOptions(macros) ==
    <<[name |-> "EP", value |-> <<"m", "a", "i", "n">>]>> \o macros

\* error.to_string()
ErrorToString(error) == error.text

\* match binary_result { Ok(result) => Ok(..to_vec()), Err(error) => Err(ShaderCompilation(..)) }
MatchBinaryResultUnwrap(binary_result) ==
    IF binary_result.tag = "Ok"
    THEN [phase |-> "returned", result |-> Ok(binary_result.val)]
    ELSE [phase |-> "panicked", result |-> Ok(<<>>)]

MatchBinaryResult(binary_result) ==
    IF binary_result.tag = "Ok"
    THEN [phase |-> "returned", result |-> Ok(binary_result.val)]
    ELSE [phase |-> "returned",
          result |-> Err(ShaderCompilation(ErrorToString(binary_result.val)))]

\* impl fmt::Display for PipelineErr: write!(f, "{}", err) onto the formatter's buffer
Fmt(e, f) ==
    CASE e.variant = "ShaderCompilation" -> f \o e.msg

NoShader ==
    [ phase |-> "idle", source_file |-> <<>>, readable |-> FALSE, shader_kind |-> "none",
      options |-> <<>>, compiled |-> FALSE, binary_result |-> Ok(<<>>),
      result |-> Ok(<<>>), displayed |-> FALSE, out |-> <<>> ]

\* load_shader_code(source_file, macros).  The file system says whether the file can be
\* read, shaderc whether the compiler and its options can be created and what the
\* compilation gives.
LoadShaderCode ==
    /\ shader.phase = "idle"
    /\ \E source_file \in SourceFiles, macros \in Macros, readable \in BOOLEAN,
          compiler_created \in BOOLEAN, options_created \in BOOLEAN,
          binary_result \in BinaryResults :
        LET kind  == ShaderKind(source_file)
            base  == [NoShader EXCEPT !.source_file = source_file, !.phase = "panicked"]
        IN  IF kind = "panic"
            THEN \* panic!("Unknown shader type")
                 shader' = base
            ELSE IF ~readable
            THEN \* .expect("Failed to read file: ..")
                 shader' = [base EXCEPT !.shader_kind = kind]
            ELSE IF ~compiler_created \/ ~options_created
            THEN \* shaderc::Compiler::new().unwrap() / CompileOptions::new().unwrap()
                 shader' = [base EXCEPT !.shader_kind = kind, !.readable = TRUE]
            ELSE LET m == MatchBinaryResult(binary_result)
                 IN  shader' = [base EXCEPT !.shader_kind = kind, !.readable = TRUE,
                                            !.options = CompileOptions(macros),
                                            !.compiled = TRUE,
                                            !.binary_result = binary_result,
                                            !.phase = m.phase, !.result = m.result]
    /\ UNCHANGED swapchainVars

\* The caller prints the error it got: format!("{}", err).
DisplayErr ==
    /\ shader.phase = "returned"
    /\ shader.result.tag = "Err"
    /\ ~shader.displayed
    /\ shader' = [shader EXCEPT !.displayed = TRUE, !.out = Fmt(shader.result.val, <<>>)]
    /\ UNCHANGED swapchainVars

(***************************************************************************)
(* Specifications.                                                         *)
(***************************************************************************)
Init ==
    /\ overflow_checks \in BOOLEAN
    /\ phase = "none"
    /\ caps = DefaultCaps
    /\ create_info = DefaultCreateInfo
    /\ swapchain = 0
    /\ images = <<>>
    /\ image_views = <<>>
    /\ extent = Extent2D(0, 0)
    /\ calls = <<>>
    /\ ret = NoRet
    /\ shader = NoShader

Next ==
    \/ New
    \/ GetImages
    \/ GetImageViews
    \/ GetExtent
    \/ Drop

Spec == Init /\ [][Next]_vars

NextShader ==
    \/ LoadShaderCode
    \/ DisplayErr

SpecShader == Init /\ [][NextShader]_vars

(***************************************************************************)
(* What the driver's log says.                                             *)
(***************************************************************************)
CallsOf(op) == {i \in 1..Len(calls) : calls[i].op = op}

Created(op) == {calls[i].h : i \in CallsOf(op)}

Destroyed(op) == {calls[i].h : i \in CallsOf(op)}

DestroysOf(op, h) == {i \in CallsOf(op) : calls[i].h = h}

\* Handles new created that no destroy_* call has been made for.
LiveHandles ==
    (Created("create_image_view") \ Destroyed("destroy_image_view"))
        \cup (Created("create_swapchain") \ Destroyed("destroy_swapchain"))

\* create_swapchain was called: new got as far as handing over its create info.
Requested == create_info # DefaultCreateInfo

(***************************************************************************)
(* C1.  After a successful Swapchain::new, Drop destroys every image view  *)
(* new created exactly once and the swapchain exactly once, every          *)
(* destroy_image_view comes before destroy_swapchain, nothing but what new *)
(* created is destroyed, and no handle new created is left.                *)
(***************************************************************************)
C1_Teardown ==
    phase = "dropped" =>
        /\ \A v \in Created("create_image_view") :
                Cardinality(DestroysOf("destroy_image_view", v)) = 1
        /\ \A sc \in Created("create_swapchain") :
                Cardinality(DestroysOf("destroy_swapchain", sc)) = 1
        /\ Created("create_swapchain") = {swapchain}
        /\ Cardinality(CallsOf("destroy_image_view"))
                = Cardinality(Created("create_image_view"))
        /\ Cardinality(CallsOf("destroy_swapchain")) = 1
        /\ \A i \in CallsOf("destroy_image_view"), j \in CallsOf("destroy_swapchain") : i < j
        /\ \A i \in CallsOf("create_image_view") \cup CallsOf("create_swapchain"),
              j \in CallsOf("destroy_image_view") \cup CallsOf("destroy_swapchain") : i < j
        /\ LiveHandles = {}

C1_Witness ==
    /\ phase = "dropped"
    /\ Len(image_views) >= 2
    /\ calls[Len(calls)].op = "destroy_swapchain"

(***************************************************************************)
(* C3.  While the Swapchain is alive there are as many image views as      *)
(* images, the i-th view is the one create_image_view made for the i-th    *)
(* image, every getter returns the field it names, and no step changes     *)
(* images, image_views or extent.                                          *)
(***************************************************************************)
C3_Live ==
    phase = "live" =>
        /\ Len(image_views) = Len(images)
        /\ \A i \in 1..Len(image_views) :
              \E j \in CallsOf("create_image_view") :
                  /\ calls[j].h = image_views[i]
                  /\ calls[j].arg = images[i]
        /\ ret.fn = "get_images" => ret.val = images
        /\ ret.fn = "get_image_views" => ret.val = image_views
        /\ ret.fn = "get_extent" => ret.val = extent

C3_Frozen ==
    (phase = "live" /\ phase' = "live") =>
        /\ images' = images
        /\ image_views' = image_views
        /\ extent' = extent

C3_ViewsMatchImages == [](C3_Live) /\ [][C3_Frozen]_vars

C3_Witness ==
    /\ phase = "live"
    /\ Len(images) >= 2
    /\ ret.fn = "get_image_views"
    /\ Len(ret.val) = Len(images)

(***************************************************************************)
(* C4, as claimed.  The request is min_image_count + 1, or max_image_count *)
(* when that is above 0 and below min_image_count + 1; with                *)
(* max_image_count = 0 it is min_image_count + 1; it lies in               *)
(* [min_image_count, max_image_count] when 0 < max_image_count and         *)
(* min_image_count <= max_image_count; it is never below min_image_count.  *)
(***************************************************************************)
C4_AsClaimed ==
    Requested =>
        LET min == caps.min_image_count
            max == caps.max_image_count
            req == create_info.min_image_count
        IN  /\ req = IF max > 0 /\ min + 1 > max THEN max ELSE min + 1
            /\ max = 0 => req = min + 1
            /\ (max > 0 /\ min <= max) => (min <= req /\ req <= max)
            /\ req >= min

(***************************************************************************)
(* C4, amended.  The sum min_image_count + 1 is a u32 sum: at              *)
(* min_image_count = u32::MAX a build with overflow checks panics before   *)
(* any request and a build without them wraps to 0.  The request is that   *)
(* u32 sum, or max_image_count when that is above 0 and below the sum;     *)
(* with max_image_count = 0 it is the sum.  When min_image_count is below  *)
(* u32::MAX: the request lies in [min_image_count, max_image_count] if     *)
(* 0 < max_image_count and min_image_count <= max_image_count, and it is   *)
(* not below min_image_count if max_image_count = 0 or min_image_count <=  *)
(* max_image_count.                                                        *)
(***************************************************************************)
C4_Amended ==
    Requested =>
        LET min == caps.min_image_count
            max == caps.max_image_count
            req == create_info.min_image_count
            sum == IF min = U32_MAX THEN 0 ELSE min + 1
        IN  /\ min = U32_MAX => ~overflow_checks
            /\ req = IF max > 0 /\ sum > max THEN max ELSE sum
            /\ max = 0 => req = sum
            /\ (min < U32_MAX /\ max > 0 /\ min <= max) => (min <= req /\ req <= max)
            /\ (min < U32_MAX /\ (max = 0 \/ min <= max)) => req >= min

C4_Witness ==
    /\ Requested
    /\ caps.max_image_count > 0
    /\ caps.min_image_count = caps.max_image_count
    /\ caps.min_image_count < U32_MAX
    /\ create_info.min_image_count = caps.max_image_count

(***************************************************************************)
(* C5.  When Swapchain::new fails partway, no handle it created is left    *)
(* undestroyed.                                                            *)
(***************************************************************************)
C5_NoLeakOnFailure == phase = "panicked" => LiveHandles = {}

(***************************************************************************)
(* C2.  Once the compiler has run on a recognised, readable source file,   *)
(* load_shader_code returns its outcome: Ok with the compiler's words, or  *)
(* Err(ShaderCompilation(msg)) with msg the compiler's error text, and     *)
(* never a panic; displaying the error gives exactly msg.                  *)
(***************************************************************************)
Recognised(name) ==
    /\ Len(name) >= 1
    /\ name[Len(name)] \in {"vert", "frag", "comp"}
    /\ Len(name) >= 2 => name[Len(name) - 1] = "."

C2_CompilerOutcomeReturned ==
    shader.compiled =>
        /\ Recognised(shader.source_file) /\ shader.readable
        /\ shader.phase = "returned"
        /\ shader.binary_result.tag = "Ok" => shader.result = Ok(shader.binary_result.val)
        /\ shader.binary_result.tag = "Err" =>
              /\ shader.result.tag = "Err"
              /\ shader.result.val = ShaderCompilation(shader.binary_result.val.text)
              /\ shader.displayed => shader.out = shader.binary_result.val.text

C2_Witness ==
    /\ shader.compiled
    /\ shader.binary_result.tag = "Err"
    /\ shader.binary_result.val.text # <<>>
    /\ shader.result.tag = "Err"
    /\ shader.displayed

====
